---- MODULE Spec2Model ----
(***************************************************************************)
(* A model of Thalassa's mesh utilities (thalassa/utils.py), of the plots   *)
(* and of the click-driven time series (thalassa/plotting.py and           *)
(* thalassa/api.py), of open_dataset, and of the callbacks of the web UI   *)
(* (thalassa/web_ui.py).                                                   *)
(*                                                                         *)
(* A dataset in the "Thalassa schema" is a record                          *)
(*   node          : the labels of the `node` coordinate                   *)
(*   triface       : the labels of the `triface` coordinate                *)
(*   lon, lat      : one value per node (dimension `node`)                 *)
(*   triface_nodes : one row <<a, b, c>> of node POSITIONS per triangle    *)
(* Positions are 0-based as in the code; TLA+ sequences are 1-based, so    *)
(* position p of an array s is s[p + 1].  Longitudes and latitudes are     *)
(* whole degrees.                                                          *)
(***************************************************************************)
EXTENDS Integers, Sequences, FiniteSets, TLC

VARIABLES
    ds,     \* the dataset the caller holds (the value bound to `ds`)
    orig,   \* the dataset the caller started from
    call,   \* the last call: its name, its arguments and what it returned or raised
    plots,  \* the objects returned by plot, plot_mesh and plot_nodes, oldest first
    tsplots,\* the time-series plots returned by plot_ts, oldest first
    ui,     \* the UserInterface object: its attributes and its widgets
    queue   \* the callbacks of the current widget event that have not run yet

vars == <<ds, orig, call, plots, tsplots, ui, queue>>

\* The variables of the mesh calls, of the plots and of the web UI
mesh_vars == <<ds, orig>>

plot_vars == <<plots, tsplots>>

ui_vars == <<ui, queue>>

\* ------------------------------------------------------------------ bounds

MaxNodes == 4

MaxTri == 2

\* ----------------------------------------------------------------- helpers

Range(s) == {s[i] : i \in 1..Len(s)}

\* The j-th smallest element of a finite set of numbers
Nth(S, j) == CHOOSE i \in S : Cardinality({k \in S : k < i}) = j - 1

Abs(x) == IF x < 0 THEN -x ELSE x

SetMin(S) == CHOOSE x \in S : \A y \in S : x <= y

SetMax(S) == CHOOSE x \in S : \A y \in S : x >= y

\* numpy.where(mask)[0]: the 0-based positions where mask holds, ascending
np_where(mask) ==
    LET F[k \in 0..Len(mask)] ==
            IF k = 0 THEN <<>>
            ELSE IF mask[k] THEN Append(F[k - 1], k - 1) ELSE F[k - 1]
    IN  F[Len(mask)]

\* numpy / xarray isin: x is one of the elements of the array
isin(x, arr) == \E k \in 1..Len(arr) : arr[k] = x

\* positional selection arr[indices] (xarray isel with an index array)
isel(arr, indices) == [k \in 1..Len(indices) |-> arr[indices[k] + 1]]

\* numpy.arange(n)
arange(n) == [k \in 1..n |-> k - 1]

\* A mutant of remap: nothing is renumbered
remap_nothing(x, keys, values) == x

\* numpy_indexed.remap(input, keys, values) of one element, missing='ignore'
remap(x, keys, values) ==
    IF isin(x, keys)
    THEN values[CHOOSE k \in 1..Len(keys) : keys[k] = x]
    ELSE x

\* ----------------------------------------------------------- bounding boxes

\* shapely.box(minx, miny, maxx, maxy): the exterior ring, counter-clockwise
shapely_box(minx, miny, maxx, maxy) ==
    << <<maxx, miny>>, <<maxx, maxy>>, <<minx, maxy>>, <<minx, miny>> >>

\* Polygon.bounds: (minx, miny, maxx, maxy) of the polygon's envelope
bounds(ring) ==
    << SetMin({ring[i][1] : i \in 1..Len(ring)}),
       SetMin({ring[i][2] : i \in 1..Len(ring)}),
       SetMax({ring[i][1] : i \in 1..Len(ring)}),
       SetMax({ring[i][2] : i \in 1..Len(ring)}) >>

NoneBBox == [kind |-> "none"]

TupleBBox(t) == [kind |-> "tuple", t |-> t]

PolygonBBox(ring) == [kind |-> "polygon", ring |-> ring]

\* resolve_bbox: None is the whole world, a tuple is a box, a polygon is itself
resolve_bbox(bbox) ==
    IF bbox.kind = "none" THEN shapely_box(-180, -90, 180, 90)
    ELSE IF bbox.kind = "tuple"
         THEN shapely_box(bbox.t[1], bbox.t[2], bbox.t[3], bbox.t[4])
         ELSE bbox.ring

\* ------------------------------------------------------------------ objects
\* A call knows two objects: `arg`, the dataset or array that the caller
\* passed, and `new`, one that the call made.  `ref` says which of them the
\* local name, and in the end the returned value, refers to.

\* A mutant of new_object: the value is stored in the caller's object
in_place(arg, value) == [arg |-> value, ref |-> "arg"]

\* ds = ds.isel(...), ds = ds.drop_isel(...), np.r_[...]: a new object holds
\* the value, the caller's object is as it was
new_object(arg, value) == [arg |-> arg, new |-> value, ref |-> "new"]

\* return face_nodes: the caller's own object
the_argument(arg) == [arg |-> arg, ref |-> "arg"]

\* ds[key] = value: written into the object that the name refers to
setitem(objects, key, value) ==
    [objects EXCEPT ![objects.ref] = [@ EXCEPT ![key] = value]]

\* --------------------------------------------------------------------- crop

\* A mutant of indices_of_nodes_in_bbox: the upper longitude bound is exclusive
indices_of_nodes_in_bbox_exclusive(d, b) ==
    np_where([i \in 1..Len(d.lon) |->
                /\ d.lat[i] >= b[2]
                /\ d.lat[i] <= b[4]
                /\ d.lon[i] >= b[1]
                /\ d.lon[i] < b[3]])

\* crop, lines 64-70: the positions of the nodes inside the bounds of bbox
indices_of_nodes_in_bbox(d, b) ==
    np_where([i \in 1..Len(d.lon) |->
                /\ d.lat[i] >= b[2]
                /\ d.lat[i] <= b[4]
                /\ d.lon[i] >= b[1]
                /\ d.lon[i] <= b[3]])

\* A mutant of indices_of_triface_nodes_in_bbox: any() in place of all()
indices_of_triface_nodes_in_bbox_any(d, node_indices) ==
    np_where([t \in 1..Len(d.triface_nodes) |->
                \E c \in 1..3 : isin(d.triface_nodes[t][c], node_indices)])

\* crop, lines 71-73: the positions of the triangles with all nodes selected
indices_of_triface_nodes_in_bbox(d, node_indices) ==
    np_where([t \in 1..Len(d.triface_nodes) |->
                \A c \in 1..3 : isin(d.triface_nodes[t][c], node_indices)])

\* The objects after crop(d, bbox): line 74 binds ds to a new dataset, line 81
\* assigns the remapped triface_nodes on it
crop_objects(d, bbox) ==
    LET b == bounds(resolve_bbox(bbox))
        ni == indices_of_nodes_in_bbox(d, b)
        ti == indices_of_triface_nodes_in_bbox(d, ni)
        selected == isel(d.triface_nodes, ti)
        remapped_nodes == arange(Len(ni))
        bound == new_object(d,
                    [node          |-> isel(d.node, ni),
                     triface       |-> isel(d.triface, ti),
                     lon           |-> isel(d.lon, ni),
                     lat           |-> isel(d.lat, ni),
                     triface_nodes |-> selected])
    IN  setitem(bound, "triface_nodes",
                [t \in 1..Len(selected) |->
                    << remap(selected[t][1], ni, remapped_nodes),
                       remap(selected[t][2], ni, remapped_nodes),
                       remap(selected[t][3], ni, remapped_nodes) >>])

\* The dataset crop(d, bbox) returns
crop(d, bbox) == LET o == crop_objects(d, bbox) IN o[o.ref]

\* ------------------------------------------------- drop_elements_crossing_idl

\* numpy indexing arr[i] with an integer i: -n..-1 count from the end, anything
\* outside -n..n-1 raises IndexError
index_ok(i, n) == -n <= i /\ i < n

np_index(arr, i) == IF i < 0 THEN arr[Len(arr) + i + 1] ELSE arr[i + 1]

\* drop_elements_crossing_idl, lines 219-225: the condition on one pair
pair_crosses_idl(lon_a, lon_b, max_lon) ==
    (lon_a * lon_b < 0) /\ (Abs(lon_a - lon_b) >= max_lon)

\* drop_elements_crossing_idl, lines 212-226: the triangles to drop
indices_of_triface_nodes_crossing_idl(d, max_lon) ==
    np_where([t \in 1..Len(d.triface_nodes) |->
        LET lon_a == np_index(d.lon, d.triface_nodes[t][1])
            lon_b == np_index(d.lon, d.triface_nodes[t][2])
            lon_c == np_index(d.lon, d.triface_nodes[t][3])
        IN  \/ pair_crosses_idl(lon_a, lon_b, max_lon)
            \/ pair_crosses_idl(lon_a, lon_c, max_lon)
            \/ pair_crosses_idl(lon_b, lon_c, max_lon)])

\* xarray drop_isel along one dimension: the positions not listed are kept
drop_isel(arr, indices) ==
    isel(arr, np_where([k \in 1..Len(arr) |-> ~isin(k - 1, indices)]))

\* A mutant of max_lon_is_invalid: zero is accepted
max_lon_is_negative(max_lon) == max_lon < 0

\* line 210: the validation of max_lon
max_lon_is_invalid(max_lon) == max_lon <= 0

\* The outcome of drop_elements_crossing_idl(d, max_lon): what it raised, the
\* dataset it returned (the input when it raised: nothing is returned), the
\* number of triangles whose longitudes it read, and the objects after the
\* call.
drop_elements_crossing_idl(d, max_lon) ==
    IF max_lon_is_invalid(max_lon)
    THEN [raised |-> "ValueError", value |-> d, examined |-> 0,
          objects |-> the_argument(d)]
    ELSE IF \E t \in 1..Len(d.triface_nodes) : \E c \in 1..3 :
                ~index_ok(d.triface_nodes[t][c], Len(d.lon))
    THEN [raised |-> "IndexError", value |-> d, examined |-> 0,
          objects |-> the_argument(d)]
    ELSE LET dropped == indices_of_triface_nodes_crossing_idl(d, max_lon)
             o == new_object(d,
                    [d EXCEPT !.triface = drop_isel(d.triface, dropped),
                              !.triface_nodes =
                                  drop_isel(d.triface_nodes, dropped)])
         IN  [raised   |-> "none",
              value    |-> o[o.ref],
              examined |-> Len(d.triface_nodes),
              objects  |-> o]

\* ------------------------------------------------------------- split_quads

\* The NaN that fills the fourth column of a triangle's row.  Node numbers
\* are never negative.
NaN == -1

isnan(x) == x = NaN

\* split_quads, lines 160-161: the rows without any NaN
quad_indexes(rows) ==
    np_where([r \in 1..Len(rows) |->
                ~(\E c \in 1..Len(rows[r]) : isnan(rows[r][c]))])

\* A mutant of new_triangle: the quad is cut along the wrong diagonal
new_triangle_abd(quad) == <<quad[1], quad[2], quad[4]>>

\* split_quads, lines 164-166: the first and the last two columns of a quad
new_triangle(quad) == <<quad[1], quad[Len(quad) - 1], quad[Len(quad)]>>

\* A face array: its number of columns (shape[-1]) and its rows
FaceArray(ncols, rows) == [ncols |-> ncols, rows |-> rows]

\* The objects after split_quads(face_nodes): lines 150-151 return the
\* caller's array, line 172 makes a new one
split_quads_objects(face_nodes) ==
    IF face_nodes.ncols # 4
    THEN the_argument(face_nodes)
    ELSE LET rows == face_nodes.rows
             existing_triangles ==
                 [r \in 1..Len(rows) |-> SubSeq(rows[r], 1, 3)]
             quads == isel(rows, quad_indexes(rows))
             new_triangles ==
                 [q \in 1..Len(quads) |-> new_triangle(quads[q])]
         IN  new_object(face_nodes,
                        FaceArray(3, existing_triangles \o new_triangles))

\* The array split_quads(face_nodes) returns
split_quads(face_nodes) ==
    LET o == split_quads_objects(face_nodes) IN o[o.ref]

\* ------------------------------------------------------------------- inputs

\* The mesh nodes lie on these (lon, lat) points, listed in the order of the
\* node dimension.
Points ==
    << <<5, 40>>, <<-170, 0>>, <<0, 20>>, <<170, 0>>, <<-5, 40>> >>

\* The node lists of n nodes: n of the points, in the order above
NodeLists(n) ==
    { [i \in 1..n |-> Points[pick[i]]] :
        pick \in {f \in [1..n -> 1..Len(Points)] :
                    \A i \in 1..(n - 1) : f[i] < f[i + 1]} }

\* A triangle lists three distinct node positions; the triangles of one mesh
\* all list them in the same orientation (ascending or descending positions).
Ascending(n) ==
    {t \in (0..(n - 1)) \X (0..(n - 1)) \X (0..(n - 1)) :
        t[1] < t[2] /\ t[2] < t[3]}

Descending(n) == {<<t[3], t[2], t[1]>> : t \in Ascending(n)}

TriLists(n) ==
    UNION {[1..m -> Ascending(n)] \cup [1..m -> Descending(n)] : m \in 0..MaxTri}

\* generate_thalassa_ds: node labels as given, triface labels range(len(...))
generate_thalassa_ds(nodes, triface_nodes, lons, lats) ==
    [node          |-> nodes,
     triface       |-> arange(Len(triface_nodes)),
     lon           |-> lons,
     lat           |-> lats,
     triface_nodes |-> triface_nodes]

\* The bbox arguments of crop: None, boxes as tuples (minx, miny, maxx, maxy)
\* with minx <= maxx and miny <= maxy, and polygons that are not rectangles.
BBoxes ==
    { NoneBBox,
      TupleBBox(<<-5, 0, 5, 40>>),
      TupleBBox(<<-180, 40, 180, 90>>),
      TupleBBox(<<-180, -90, 180, 0>>),
      PolygonBBox(<< <<-5, 0>>, <<5, 0>>, <<-5, 40>> >>) }

\* The max_lon arguments of drop_elements_crossing_idl (10 is the default)
MaxLons == {-10, 0, 10, 20}

EmptyDs == generate_thalassa_ds(<<>>, <<>>, <<>>, <<>>)

NoCall == [op |-> "none"]

\* Before UserInterface() is called there is no UserInterface object
NoUI == [constructed |-> FALSE]

\* ------------------------------------------------------------ the mesh calls

Init ==
    /\ \E n \in 1..MaxNodes : \E pts \in NodeLists(n) : \E tl \in TriLists(n) :
        ds = generate_thalassa_ds(arange(n), tl,
                                  [i \in 1..n |-> pts[i][1]],
                                  [i \in 1..n |-> pts[i][2]])
    /\ orig = ds
    /\ call = NoCall
    /\ plots = <<>>
    /\ tsplots = <<>>
    /\ ui = NoUI
    /\ queue = <<>>

\* ds = crop(ds, bbox)
Crop ==
    /\ \E bbox \in BBoxes :
        \E o \in {crop_objects(ds, bbox)} :
            /\ ds' = o[o.ref]
            /\ call' = [op |-> "crop", ds |-> ds, bbox |-> bbox,
                        raised |-> "none", arg |-> o.arg, ref |-> o.ref]
    /\ UNCHANGED <<orig, plot_vars, ui_vars>>

\* ds = drop_elements_crossing_idl(ds, max_lon); on an exception ds is not rebound
DropElementsCrossingIdl ==
    /\ \E max_lon \in MaxLons :
        \E r \in {drop_elements_crossing_idl(ds, max_lon)} :
            /\ ds' = r.value
            /\ call' = [op |-> "drop_elements_crossing_idl", ds |-> ds,
                        max_lon |-> max_lon, raised |-> r.raised,
                        examined |-> r.examined,
                        arg |-> r.objects.arg, ref |-> r.objects.ref]
    /\ UNCHANGED <<orig, plot_vars, ui_vars>>

\* split_quads(face_nodes) on the triangles of the mesh, as the three-column
\* array ds.triface_nodes.data or as a four-column array whose last column is
\* NaN; ds is not rebound
SplitQuadsOfTheMesh ==
    /\ \E ncols \in {3, 4} :
        LET rows == IF ncols = 3 THEN ds.triface_nodes
                    ELSE [r \in 1..Len(ds.triface_nodes) |->
                            Append(ds.triface_nodes[r], NaN)]
        IN  \E o \in {split_quads_objects(FaceArray(ncols, rows))} :
                call' = [op |-> "split_quads",
                         face_nodes |-> FaceArray(ncols, rows),
                         result |-> o[o.ref],
                         arg |-> o.arg, ref |-> o.ref]
    /\ UNCHANGED <<mesh_vars, plot_vars, ui_vars>>

Next == Crop \/ DropElementsCrossingIdl \/ SplitQuadsOfTheMesh

Spec == Init /\ [][Next]_vars

\* ------------------------------------------------ get_index_of_nearest_node

\* line 181: the squared distance of every node to (lon, lat)
dist(d, lon, lat) ==
    [i \in 1..Len(d.lon) |->
        Abs(d.lon[i] - lon) * Abs(d.lon[i] - lon)
            + Abs(d.lat[i] - lat) * Abs(d.lat[i] - lat)]

\* A mutant of argmin: of several minima the last one wins
argmin_last(arr) ==
    LET F[k \in 1..Len(arr)] ==
            IF k = 1 THEN 1
            ELSE IF arr[k] <= arr[F[k - 1]] THEN k ELSE F[k - 1]
    IN  F[Len(arr)] - 1

\* numpy argmin: the 0-based position of the first occurrence of the minimum
argmin(arr) ==
    LET F[k \in 1..Len(arr)] ==
            IF k = 1 THEN 1
            ELSE IF arr[k] < arr[F[k - 1]] THEN k ELSE F[k - 1]
    IN  F[Len(arr)] - 1

get_index_of_nearest_node(d, lon, lat) == argmin(dist(d, lon, lat))

\* ------------------------------------------------------------------- plot

\* normalization.normalize: a dataset already in the Thalassa schema is
\* returned as it is
normalize(d) == d

\* A mutant of sanity_check: only the presence of 'node' is checked
sanity_check_node_only(dims) ==
    IF ~isin("node", dims) THEN "ValueError" ELSE "none"

\* _sanity_check on the dimensions of ds[variable]: what it raises
sanity_check(dims) ==
    IF ~isin("node", dims) THEN "ValueError"
    ELSE IF dims # <<"node">> THEN "ValueError"
    ELSE "none"

\* ------------------------------------------------------- the plotted ranges

\* Python's dict union a | b: the keys of both, b's value where both have one
dict_union(a, b) ==
    [k \in (DOMAIN a) \cup (DOMAIN b) |-> IF k \in DOMAIN b THEN b[k] ELSE a[k]]

\* Python's None, and the truth value of None or of a tuple
None == "None"

truthy(v) == v # None /\ v # <<>>

\* EPSG:4326 -> EPSG:3857, in metres: x = R * lon (in radians) is 111319 m per
\* degree; y = R * ln(tan(pi/4 + lat/2)) is tabulated for the latitudes in use.
merc_x(lon) == lon * 111319

merc_y(lat) ==
    LET y == CASE Abs(lat) = 0  -> 0
               [] Abs(lat) = 20 -> 2273031
               [] Abs(lat) = 40 -> 4865942
    IN  IF lat < 0 THEN -y ELSE y

\* Transformer.transform(xx, yy) of _get_transformer(), always_xy=True: the
\* first argument is a longitude, the second a latitude, the result is (x, y)
transform(xx, yy) == <<merc_x(xx), merc_y(yy)>>

\* _resolve_ranges(x_range, y_range, kwargs): kwargs as it is afterwards
resolve_ranges(x_range, y_range, kwargs) ==
    LET with_x == IF truthy(x_range)
                  THEN dict_union(kwargs,
                          [x_range |-> transform(x_range[1], x_range[2])])
                  ELSE kwargs
        with_y == IF truthy(y_range)
                  THEN dict_union(with_x,
                          [y_range |-> transform(y_range[1], y_range[2])])
                  ELSE with_x
    IN  IF truthy(x_range) \/ truthy(y_range) THEN with_y ELSE kwargs

\* ---------------------------------------------------- the elements of a plot
\* Objects are records; `id` tells two objects of the same type apart.

\* The dataset handed to a plotting function; dims is ds[variable].dims
Dataset(dims) == [type |-> "Dataset", dims |-> dims]

\* create_trimesh: a TriMesh is returned as it is, of a dataset a new TriMesh
\* (the object `id`) is built
create_trimesh(ds_or_trimesh, variable, id) ==
    IF ds_or_trimesh.type = "TriMesh"
    THEN ds_or_trimesh
    ELSE [type |-> "TriMesh", id |-> id, name |-> variable]

get_tiles == [type |-> "WMTS"]

\* holoviews.operation.datashader.rasterize(**kwargs)
rasterize(kwargs) == [type |-> "DynamicMap", rasterize |-> kwargs]

\* get_raster(ds_or_trimesh, variable, x_range=..., y_range=...)
get_raster(ds_or_trimesh, variable, x_range, y_range, id) ==
    LET trimesh == create_trimesh(ds_or_trimesh, variable, id)
        kwargs == resolve_ranges(x_range, y_range,
                      [element |-> <<"trimesh", trimesh.id>>,
                       precompute |-> TRUE])
    IN  rasterize(kwargs)

\* get_wireframe(ds_or_trimesh, x_range=..., y_range=...)
get_wireframe(ds_or_trimesh, x_range, y_range, id) ==
    LET trimesh == create_trimesh(ds_or_trimesh, "", id)
        kwargs == resolve_ranges(x_range, y_range,
                      [element |-> <<"edgepaths", trimesh.id>>,
                       precompute |-> TRUE])
    IN  rasterize(kwargs)

\* get_nodes(ds_or_trimesh, x_range=..., y_range=..., size=...): kwargs is
\* filled by _resolve_ranges (line 192) and not used afterwards
get_nodes(ds_or_trimesh, x_range, y_range, size, id) ==
    LET trimesh == create_trimesh(ds_or_trimesh, "", id)
        kwargs == resolve_ranges(x_range, y_range, [x \in {} |-> TRUE])
    IN  [type |-> "Points",
         data |-> <<"nodes", trimesh.id>>,
         opts |-> [tools |-> <<"crosshair", "hover">>, size |-> size,
                   title |-> "Nodes", color |-> "green"]]

\* hv.Overlay(components).collate()
collate(components) == [type |-> "DynamicMap", overlay |-> components]

\* A mutant of with_raster: the raster is not recorded
without_raster(dmap, raster) == dmap

\* plot, line 197: dmap._raster = raster
with_raster(dmap, raster) == dict_union(dmap, [_raster |-> raster])

\* A mutant of plot_components: the nodes come before the wireframe
plot_components_nodes_first(tiles, raster, mesh, nodes, show_mesh, show_nodes) ==
    LET base == <<tiles, raster>>
        with_nodes == IF show_nodes THEN Append(base, nodes) ELSE base
    IN  IF show_mesh THEN Append(with_nodes, mesh) ELSE with_nodes

\* plot, lines 187-193: the list `components`
plot_components(tiles, raster, mesh, nodes, show_mesh, show_nodes) ==
    LET base == <<tiles, raster>>
        with_mesh == IF show_mesh THEN Append(base, mesh) ELSE base
    IN  IF show_nodes THEN Append(with_mesh, nodes) ELSE with_mesh

\* plot's default for node_size
node_size == 3

\* plot(ds, variable, x_range=..., y_range=..., show_mesh=..., show_nodes=...)
\* on a dataset whose variable has the given dimensions: what it raised, the
\* objects it created in the order of their creation, the components of the
\* overlay and the object it returned.  The trimesh plot builds is the object
\* `id`; a trimesh built inside get_raster, get_wireframe or get_nodes would be
\* the object id + 1, id + 2 or id + 3.
plot(id, dims, x_range, y_range, show_mesh, show_nodes) ==
    LET d == normalize(Dataset(dims))
        raised == sanity_check(d.dims)
        trimesh == create_trimesh(d, "variable", id)
        raster == get_raster(trimesh, "variable", x_range, y_range, id + 1)
        tiles == get_tiles
        mesh == get_wireframe(trimesh, x_range, y_range, id + 2)
        nodes == get_nodes(trimesh, x_range, y_range, node_size, id + 3)
        components ==
            plot_components(tiles, raster, mesh, nodes, show_mesh, show_nodes)
    IN  IF raised # "none"
        THEN [raised |-> raised, created |-> <<>>, components |-> <<>>,
              returned |-> None]
        ELSE [raised     |-> "none",
              created    |-> <<"trimesh", "raster", "tiles">>
                               \o (IF show_mesh THEN <<"wireframe">> ELSE <<>>)
                               \o (IF show_nodes THEN <<"nodes">> ELSE <<>>),
              components |-> components,
              returned   |-> with_raster(collate(components), raster)]

\* plot_nodes(ds, x_range=..., y_range=..., size=...); the trimesh get_nodes
\* builds is the object `id`
plot_nodes(id, x_range, y_range, size) ==
    LET d == normalize(Dataset(<<"node">>))
        tiles == get_tiles
        nodes == get_nodes(d, x_range, y_range, size, id)
    IN  collate(<<tiles, nodes>>)

\* plot_mesh(ds, x_range=..., y_range=...); the trimesh get_wireframe builds
\* is the object `id`
plot_mesh(id, x_range, y_range) ==
    LET d == normalize(Dataset(<<"node">>))
        tiles == get_tiles
        mesh == get_wireframe(d, x_range, y_range, id)
    IN  collate(<<tiles, mesh>>)

\* --------------------------------------------- filter_visualizable_data_vars

VISUALIZABLE_DIMS ==
    { <<"node">>, <<"time", "node">>, <<"time", "node", "layer">> }

\* A mutant of is_variable_visualizable: the order of the dimensions is ignored
is_variable_visualizable_any_order(var_dims, variable) ==
    IF variable \in {"lon", "lat"}
    THEN FALSE
    ELSE \E v \in VISUALIZABLE_DIMS :
            Len(v) = Len(var_dims[variable]) /\ Range(v) = Range(var_dims[variable])

\* is_variable_visualizable(ds, variable); var_dims[v] is ds[v].dims
is_variable_visualizable(var_dims, variable) ==
    IF variable \in {"lon", "lat"}
    THEN FALSE
    ELSE var_dims[variable] \in VISUALIZABLE_DIMS

\* filter_visualizable_data_vars: the loop over `variables`
filter_visualizable_data_vars(var_dims, variables) ==
    LET visualizable[k \in 0..Len(variables)] ==
            IF k = 0 THEN <<>>
            ELSE IF is_variable_visualizable(var_dims, variables[k])
                 THEN Append(visualizable[k - 1], variables[k])
                 ELSE visualizable[k - 1]
    IN  visualizable[Len(variables)]

\* ------------------------------------------------------------ open_dataset

ADCIRC_VARIABLES_TO_BE_DROPPED == <<"neta", "nvel", "max_nvdll", "max_nvell">>

\* open_dataset, lines 96-100
default_kwargs ==
    [cache |-> FALSE, drop_variables |-> ADCIRC_VARIABLES_TO_BE_DROPPED]

\* open_dataset(path, normalize, **kwargs): the keyword arguments handed to
\* xarray.open_dataset, and whether the result is normalized
open_dataset(normalize_flag, kwargs) ==
    [passed |-> dict_union(default_kwargs, kwargs), normalized |-> normalize_flag]

\* ---------------------------------------------------------- inject_maximum

\* pd.to_datetime(timestamp): the day, as the number yyyymmdd
to_datetime(timestamp) ==
    CASE timestamp = "1900-01-01" -> 19000101
      [] timestamp = "1950-06-15" -> 19500615

\* A dataset whose variable has the dimensions (dim, 'node'): the coordinate of
\* dim and one row of values per entry of dim
TimeDataset(dim, times, rows) ==
    [dims |-> <<dim, "node">>, coords |-> (dim :> times), data |-> rows]

Raised(exception) == [raised |-> exception]

Returned(value) == [raised |-> "none", value |-> value]

\* dataset.max(dim): the maximum over dim of every column
ds_max(d, dim) ==
    IF ~isin(dim, d.dims)
    THEN Raised("ValueError")
    ELSE Returned(
            [dims   |-> <<"node">>,
             coords |-> [x \in {} |-> <<>>],
             data   |-> [i \in 1..Len(d.data[1]) |->
                            SetMax({d.data[t][i] : t \in 1..Len(d.data)})]])

\* reduced.expand_dims({dim: values}) of a dataset without dim: one row per
\* value (here one value)
expand_dims(d, dim, values) ==
    [dims   |-> <<dim>> \o d.dims,
     coords |-> (dim :> values) @@ d.coords,
     data   |-> [k \in 1..Len(values) |-> d.data]]

\* xr.concat((first, second), dim=dim).  When both have dim, the entries of
\* first are followed by those of second.  When a coordinate of one of them is
\* missing from the other, xarray refuses to concatenate.
concat(first, second, dim) ==
    IF DOMAIN first.coords # DOMAIN second.coords
    THEN Raised("ValueError")
    ELSE Returned(
            [dims   |-> second.dims,
             coords |-> (dim :> first.coords[dim] \o second.coords[dim]),
             data   |-> first.data \o second.data])

\* inject_maximum(dataset, time_var, timestamp): expand_dims is given
\* dict(time_var=[...]), the dictionary whose only key is the string 'time_var'
inject_maximum(dataset, time_var, timestamp) ==
    LET maximum == ds_max(dataset, time_var)
    IN  IF maximum.raised # "none"
        THEN maximum
        ELSE concat(expand_dims(maximum.value, "time_var",
                                <<to_datetime(timestamp)>>),
                    dataset, time_var)

\* ---------------------------------------------------- generate_mesh_polygon

\* numpy arr[indices] for an array of integers: every index is taken as numpy
\* takes one index, and one index outside the array raises IndexError
take(arr, indices) ==
    IF \E k \in 1..Len(indices) : ~index_ok(indices[k], Len(arr))
    THEN Raised("IndexError")
    ELSE Returned([k \in 1..Len(indices) |-> np_index(arr, indices[k])])

\* generate_mesh_polygon(d), lines 292-351: the column c of triface_nodes
\* selects from the node coordinate (lines 294-296), and what it selected, the
\* LABELS of the nodes, selects from lon and lat (lines 302-304 and 308-310);
\* polygons holds the ring of each triangle, geometry their union, kept as the
\* set of the rings
generate_mesh_polygon(d) ==
    LET column(c) == [t \in 1..Len(d.triface_nodes) |-> d.triface_nodes[t][c]]
        nodes_of(c) == take(d.node, column(c))
        lons_of(c) == take(d.lon, nodes_of(c).value)
        lats_of(c) == take(d.lat, nodes_of(c).value)
        point(t, c) == <<lons_of(c).value[t], lats_of(c).value[t]>>
    IN  IF \E c \in 1..3 : \/ nodes_of(c).raised # "none"
                           \/ lons_of(c).raised # "none"
                           \/ lats_of(c).raised # "none"
        THEN Raised("IndexError")
        ELSE LET polygons == [t \in 1..Len(d.triface_nodes) |->
                                << point(t, 1), point(t, 2), point(t, 3), point(t, 1) >>]
             IN  Returned([polygons |-> polygons, geometry |-> Range(polygons)])

\* --------------------------------------------- inputs of the function calls

MaxFaces == 2

MaxFaceNode == 3

MaxVars == 3

FaceNodes == 0..MaxFaceNode

\* A face lists distinct nodes, the lowest one first.
TriangleRows ==
    {r \in {<<a, b, c, NaN>> : a, b, c \in FaceNodes} :
        r[1] < r[2] /\ r[1] < r[3] /\ r[2] # r[3]}

QuadRows ==
    {r \in [1..4 -> FaceNodes] :
        /\ \A i, j \in 1..4 : i # j => r[i] # r[j]
        /\ \A i \in 2..4 : r[1] < r[i]}

ThreeColumnRows == {<<a, b, c>> : a, b, c \in 0..1}

FaceRows == TriangleRows \cup QuadRows

\* The node lists of the nearest-node lookups: distinct points in any order
NodeOrders(n) ==
    {s \in [1..n -> Range(Points)] : \A i, j \in 1..n : i # j => s[i] # s[j]}

\* The (lon, lat) arguments of get_index_of_nearest_node
Queries == { <<0, 40>>, <<0, 20>>, <<-170, 0>>, <<90, 10>> }

Dims == {"time", "node", "layer"}

\* The dimension tuples of a variable: no dimension twice
DimTuples ==
    UNION { {t \in [1..m -> Dims] : \A i, j \in 1..m : i # j => t[i] # t[j]}
                : m \in 0..3 }

\* The datasets of filter_visualizable_data_vars: lon and lat are per node
VarDims ==
    { [lon |-> <<"node">>, lat |-> <<"node">>, depth |-> d, zeta |-> z] :
        d \in {<<"node">>, <<"node", "time">>}, z \in DimTuples }

VarNames == {"lon", "lat", "depth", "zeta"}

\* The keyword arguments a caller of open_dataset passes
Kwargs ==
    { [x \in {} |-> TRUE], [cache |-> TRUE], [engine |-> "netcdf4"] }
    \cup { [drop_variables |-> dv] :
            dv \in { <<>>, <<"zeta">>, <<"nvel", "neta">>,
                     ADCIRC_VARIABLES_TO_BE_DROPPED } }
    \cup { [drop_variables |-> <<"zeta">>, cache |-> TRUE] }

\* The x_range and y_range arguments: not given, or (minimum, maximum) in
\* degrees
Ranges == { None, <<0, 20>>, <<-20, 40>>, <<0, 0>> }

\* The ds_or_trimesh arguments: a dataset, or a trimesh built before
PlotInputs ==
    { Dataset(<<"node">>), create_trimesh(Dataset(<<"node">>), "variable", 0) }

\* The size arguments of get_nodes and plot_nodes
Sizes == {2, 4}

\* The largest number of timestamps of a dataset
MaxTimes == 2

\* The names of the time variable of a dataset
TimeVars == {"time", "time_var"}

\* The timestamps of a dataset, oldest first, and the values of a variable
Times == <<20000101, 20000102, 20000103>>

Values == 0..2

\* The timestamp arguments of inject_maximum
TimestampArguments == {"1900-01-01", "1950-06-15"}

\* ------------------------------------------------------- the function calls
\* The functions below keep no state between calls: a behaviour is one call.

InitFn ==
    /\ ds = EmptyDs
    /\ orig = EmptyDs
    /\ call = NoCall
    /\ plots = <<>>
    /\ tsplots = <<>>
    /\ ui = NoUI
    /\ queue = <<>>

SplitQuads ==
    /\ call = NoCall
    /\ \E face_nodes \in
            {FaceArray(3, <<row>>) : row \in ThreeColumnRows} \cup
            {FaceArray(4, <<>>)} :
        call' = [op |-> "split_quads", face_nodes |-> face_nodes,
                 result |-> split_quads(face_nodes)]
    /\ UNCHANGED <<mesh_vars, plot_vars, ui_vars>>

\* split_quads on a 4-column array of 1..MaxFaces triangles and quads
SplitQuadsOfFaces ==
    /\ call = NoCall
    /\ \E m \in 1..MaxFaces : \E rows \in [1..m -> FaceRows] :
        call' = [op |-> "split_quads", face_nodes |-> FaceArray(4, rows),
                 result |-> split_quads(FaceArray(4, rows))]
    /\ UNCHANGED <<mesh_vars, plot_vars, ui_vars>>

GetIndexOfNearestNode ==
    /\ call = NoCall
    /\ \E n \in 1..MaxNodes : \E pts \in NodeOrders(n) : \E q \in Queries :
        LET d == generate_thalassa_ds(arange(n), <<>>,
                                      [i \in 1..n |-> pts[i][1]],
                                      [i \in 1..n |-> pts[i][2]])
        IN  call' = [op |-> "get_index_of_nearest_node", ds |-> d,
                     lon |-> q[1], lat |-> q[2],
                     result |-> get_index_of_nearest_node(d, q[1], q[2])]
    /\ UNCHANGED <<mesh_vars, plot_vars, ui_vars>>

Plot ==
    /\ call = NoCall
    /\ \E dims \in DimTuples : \E x_range, y_range \in Ranges :
       \E show_mesh, show_nodes \in BOOLEAN :
        LET r == plot(1, dims, x_range, y_range, show_mesh, show_nodes)
        IN  call' = [op |-> "plot", dims |-> dims,
                     x_range |-> x_range, y_range |-> y_range,
                     show_mesh |-> show_mesh, show_nodes |-> show_nodes,
                     raised |-> r.raised, created |-> r.created,
                     components |-> r.components, returned |-> r.returned]
    /\ UNCHANGED <<mesh_vars, plot_vars, ui_vars>>

FilterVisualizableDataVars ==
    /\ call = NoCall
    /\ \E var_dims \in VarDims :
       \E m \in 0..MaxVars : \E variables \in [1..m -> VarNames] :
        call' = [op |-> "filter_visualizable_data_vars", var_dims |-> var_dims,
                 variables |-> variables,
                 result |-> filter_visualizable_data_vars(var_dims, variables)]
    /\ UNCHANGED <<mesh_vars, plot_vars, ui_vars>>

OpenDataset ==
    /\ call = NoCall
    /\ \E kwargs \in Kwargs : \E normalize_flag \in BOOLEAN :
        LET r == open_dataset(normalize_flag, kwargs)
        IN  call' = [op |-> "open_dataset", kwargs |-> kwargs,
                     passed |-> r.passed, normalized |-> r.normalized]
    /\ UNCHANGED <<mesh_vars, plot_vars, ui_vars>>

\* get_raster on a dataset or on a trimesh built before (object 0)
GetRaster ==
    /\ call = NoCall
    /\ \E ds_or_trimesh \in PlotInputs : \E x_range, y_range \in Ranges :
        call' = [op |-> "get_raster", ds_or_trimesh |-> ds_or_trimesh,
                 x_range |-> x_range, y_range |-> y_range,
                 returned |-> get_raster(ds_or_trimesh, "variable",
                                         x_range, y_range, 1)]
    /\ UNCHANGED <<mesh_vars, plot_vars, ui_vars>>

GetWireframe ==
    /\ call = NoCall
    /\ \E ds_or_trimesh \in PlotInputs : \E x_range, y_range \in Ranges :
        call' = [op |-> "get_wireframe", ds_or_trimesh |-> ds_or_trimesh,
                 x_range |-> x_range, y_range |-> y_range,
                 returned |-> get_wireframe(ds_or_trimesh, x_range, y_range, 1)]
    /\ UNCHANGED <<mesh_vars, plot_vars, ui_vars>>

GetNodes ==
    /\ call = NoCall
    /\ \E ds_or_trimesh \in PlotInputs : \E x_range, y_range \in Ranges :
       \E size \in Sizes :
        call' = [op |-> "get_nodes", ds_or_trimesh |-> ds_or_trimesh,
                 x_range |-> x_range, y_range |-> y_range, size |-> size,
                 returned |-> get_nodes(ds_or_trimesh, x_range, y_range,
                                        size, 1)]
    /\ UNCHANGED <<mesh_vars, plot_vars, ui_vars>>

PlotNodes ==
    /\ call = NoCall
    /\ \E x_range, y_range \in Ranges : \E size \in Sizes :
        call' = [op |-> "plot_nodes",
                 x_range |-> x_range, y_range |-> y_range, size |-> size,
                 returned |-> plot_nodes(1, x_range, y_range, size)]
    /\ UNCHANGED <<mesh_vars, plot_vars, ui_vars>>

\* inject_maximum on a dataset of two nodes whose time dimension is named by
\* time_var
InjectMaximum ==
    /\ call = NoCall
    /\ \E time_var \in TimeVars : \E timestamp \in TimestampArguments :
       \E m \in 1..MaxTimes : \E rows \in [1..m -> [1..2 -> Values]] :
        LET dataset == TimeDataset(time_var, SubSeq(Times, 1, m), rows)
        IN  call' = [op |-> "inject_maximum", dataset |-> dataset,
                     time_var |-> time_var, timestamp |-> timestamp,
                     result |-> inject_maximum(dataset, time_var, timestamp)]
    /\ UNCHANGED <<mesh_vars, plot_vars, ui_vars>>

\* generate_mesh_polygon(ds) for a dataset made by generate_thalassa_ds with
\* the labels 0..n-1, as it is or as crop returns it
GenerateMeshPolygon ==
    /\ call = NoCall
    /\ \E n \in 1..MaxNodes : \E pts \in NodeLists(n) : \E tl \in TriLists(n) :
        \E cropped \in BOOLEAN : \E bbox \in BBoxes :
            LET whole == generate_thalassa_ds(arange(n), tl,
                                              [i \in 1..n |-> pts[i][1]],
                                              [i \in 1..n |-> pts[i][2]])
            IN  \E d \in {IF cropped THEN crop(whole, bbox) ELSE whole} :
                    call' = [op |-> "generate_mesh_polygon", ds |-> d,
                             cropped |-> cropped,
                             result |-> generate_mesh_polygon(d)]
    /\ UNCHANGED <<mesh_vars, plot_vars, ui_vars>>

NextFn ==
    \/ SplitQuads
    \/ SplitQuadsOfFaces
    \/ GetIndexOfNearestNode
    \/ Plot
    \/ GetRaster
    \/ GetWireframe
    \/ GetNodes
    \/ PlotNodes
    \/ InjectMaximum
    \/ FilterVisualizableDataVars
    \/ OpenDataset
    \/ GenerateMeshPolygon

SpecFn == InitFn /\ [][NextFn]_vars

\* ------------------------------------------------------ the time-series plot

\* The latitudes whose Web Mercator y is tabulated
Latitudes == {-40, -20, 0, 20, 40}

\* pyproj.Transformer.from_crs("EPSG:3857", "EPSG:4326", always_xy=True)
\* .transform: the inverse of transform
to_wgs84(x, y) ==
    << x \div 111319, CHOOSE lat \in Latitudes : merc_y(lat) = y >>

\* raster_dataset[data_var_name].interp(dict(lon=lon, lat=lat)).data: the value
\* of the image that the raster shows at the moment, NaN outside the image
interp(image, lon, lat) ==
    IF <<lon, lat>> \in DOMAIN image THEN image[<<lon, lat>>] ELSE NaN

is_point_in_the_raster(image, lon, lat) == ~isnan(interp(image, lon, lat))

\* ds.isel(node=node_index) of ds[["lon", "lat", variable]]
isel_node(d, variable, node_index) ==
    [lon  |-> d.lon[node_index + 1],
     lat  |-> d.lat[node_index + 1],
     time |-> d.time,
     data |-> [t \in 1..Len(d.time) |-> d[variable][t][node_index + 1]]]

\* isel(time=slice(0, 0)): no timestamp is left
isel_no_time(ts) == [ts EXCEPT !.time = <<>>, !.data = <<>>]

\* A title is its text; literal(text) is a text without replacement fields
literal(text) == [template |-> text]

\* title_template.format(lon=..., lat=..., variable=..., node_index=...): the
\* template and the values that fill its replacement fields
format(title_template, lon, lat, variable, node_index) ==
    [template |-> title_template, variable |-> variable,
     node_index |-> node_index, lon |-> lon, lat |-> lat]

\* hv.Curve(ts[variable]).opts(title=title, ...)
Curve(ts, title) ==
    [type |-> "Curve", time |-> ts.time, data |-> ts.data, title |-> title]

\* A mutant of shows_placeholder: the first invocation is not told apart
shows_placeholder_outside_only(initial_render, inside) == ~inside

\* _get_stream_timeseries.callback, line 300
shows_placeholder(initial_render, inside) == initial_render \/ ~inside

\* _get_stream_timeseries.callback(x, y) of the closure c, when the raster
\* shows `image`: the plot it returns, initial_render afterwards, and whether
\* is_point_in_the_raster was evaluated (`or` evaluates its right operand only
\* if the left one is false)
callback(c, image, x, y) ==
    LET placeholder ==
            shows_placeholder(c.initial_render,
                              is_point_in_the_raster(image, x, y))
        wgs84 == to_wgs84(x, y)
        node_index == get_index_of_nearest_node(c.ds, wgs84[1], wgs84[2])
        ts == IF placeholder
              THEN isel_no_time(isel_node(c.ds, c.variable, 0))
              ELSE isel_node(c.ds, c.variable, node_index)
        title == IF placeholder
                 THEN literal("Please click on the map!")
                 ELSE format(c.title_template, ts.lon, ts.lat, c.variable,
                             node_index)
    IN  [plot |-> Curve(ts, title),
         initial_render |-> FALSE,
         tested |-> ~c.initial_render]

\* _get_stream_timeseries: the DynamicMap of the callback and of its stream
get_stream_timeseries(d, variable, source_raster, stream_class, title_template) ==
    IF stream_class \notin {"Tap", "PointerXY"}
    THEN [raised |-> "ValueError", returned |-> None]
    ELSE [raised   |-> "none",
          returned |->
            [type     |-> "DynamicMap",
             stream   |-> [class |-> stream_class, x |-> 0, y |-> 0,
                           source |-> source_raster],
             callback |-> [ds |-> d, variable |-> variable,
                           source_raster |-> source_raster,
                           title_template |-> title_template,
                           initial_render |-> TRUE]]]

get_tap_timeseries(d, variable, source_raster) ==
    get_stream_timeseries(d, variable, source_raster, "Tap",
        "{variable} - Node={node_index} Lon={lon:.6f} Lat={lat:.6f}")

\* plot_ts(ds, variable, source_plot); reading source_plot._raster raises
\* AttributeError on an object that has no such attribute
plot_ts(d, variable, source_plot) ==
    IF "_raster" \notin DOMAIN source_plot
    THEN [raised |-> "AttributeError", returned |-> None]
    ELSE get_tap_timeseries(normalize(d), variable, source_plot._raster)

\* --------------------------------------------- inputs of the time-series plot

MaxPlots == 2

MaxTsPlots == 1

\* Three nodes and the variable zeta at two timestamps
TsDataset ==
    [lon  |-> <<5, -170, 0>>,
     lat  |-> <<40, 0, 20>>,
     time |-> <<1, 2>>,
     zeta |-> << <<10, 20, 30>>, <<11, 21, 31>> >>]

\* The coordinates a stream reports, in Web Mercator: the stream's initial
\* (0, 0) and three points of the map
Clicks ==
    { <<0, 0>>, transform(0, 40), transform(0, 20), transform(-170, 0) }

\* The images a raster shows, depending on the zoom level and the viewport:
\* pixels with a value, pixels without one (NaN), and nothing beyond its bounds
Images ==
    { (transform(0, 20) :> 7) @@ (transform(0, 40) :> NaN),
      (transform(0, 20) :> 7) @@ (transform(0, 40) :> 8)
          @@ (transform(-170, 0) :> 9) }

NoImage == <<>>

\* The number of the first object that the next plot creates
next_id == 4 * Len(plots) + 1

\* The image shown by the raster `raster`, which is the raster of one plot
image_of(raster) ==
    plots[CHOOSE k \in 1..Len(plots) :
            /\ "_raster" \in DOMAIN plots[k].dmap
            /\ plots[k].dmap._raster = raster].image

\* ------------------------------------------- the plots and their time series

InitTs ==
    /\ ds = EmptyDs
    /\ orig = EmptyDs
    /\ call = NoCall
    /\ plots = <<>>
    /\ tsplots = <<>>
    /\ ui = NoUI
    /\ queue = <<>>

\* source_plot = plot(ds, variable); its raster renders an image
MainPlot ==
    /\ Len(plots) < MaxPlots
    /\ \E image \in Images :
        LET r == plot(next_id, <<"node">>, None, None, FALSE, FALSE)
        IN  /\ plots' = Append(plots, [made_by |-> "plot", dmap |-> r.returned,
                                       image |-> image])
            /\ call' = [op |-> "plot", returned |-> r.returned]
    /\ UNCHANGED <<tsplots, mesh_vars, ui_vars>>

\* source_plot = plot_mesh(ds)
MeshPlot ==
    /\ Len(plots) < MaxPlots
    /\ LET r == plot_mesh(next_id, None, None)
       IN  /\ plots' = Append(plots, [made_by |-> "plot_mesh", dmap |-> r,
                                      image |-> NoImage])
           /\ call' = [op |-> "plot_mesh", returned |-> r]
    /\ UNCHANGED <<tsplots, mesh_vars, ui_vars>>

\* source_plot = plot_nodes(ds)
NodesPlot ==
    /\ Len(plots) < MaxPlots
    /\ LET r == plot_nodes(next_id, None, None, 4)
       IN  /\ plots' = Append(plots, [made_by |-> "plot_nodes", dmap |-> r,
                                      image |-> NoImage])
           /\ call' = [op |-> "plot_nodes", returned |-> r]
    /\ UNCHANGED <<tsplots, mesh_vars, ui_vars>>

\* The user zooms or pans a plot: its raster renders another image
Zoom ==
    /\ \E k \in 1..Len(plots) : \E image \in Images :
        /\ plots[k].made_by = "plot"
        /\ image # plots[k].image
        /\ plots' = [plots EXCEPT ![k].image = image]
        /\ call' = [op |-> "zoom", plot |-> k]
    /\ UNCHANGED <<tsplots, mesh_vars, ui_vars>>

\* plot_ts(ds, "zeta", source_plot) on one of the objects made so far
PlotTs ==
    /\ Len(tsplots) < MaxTsPlots
    /\ \E k \in 1..Len(plots) :
        LET r == plot_ts(TsDataset, "zeta", plots[k].dmap)
        IN  /\ tsplots' = IF r.raised = "none"
                          THEN Append(tsplots, [dmap |-> r.returned,
                                                invoked |-> FALSE])
                          ELSE tsplots
            /\ call' = [op |-> "plot_ts", source_plot |-> k,
                        raised |-> r.raised, returned |-> r.returned]
    /\ UNCHANGED <<plots, mesh_vars, ui_vars>>

\* The DynamicMap of a time-series plot invokes its callback: at its first
\* rendering and whenever its stream reports coordinates.  `invoked` records
\* that an invocation has completed.
Callback ==
    /\ \E t \in 1..Len(tsplots) : \E click \in Clicks :
        LET c == tsplots[t].dmap.callback
            image == image_of(c.source_raster)
            r == callback(c, image, click[1], click[2])
        IN  /\ tsplots' = [tsplots EXCEPT
                             ![t].dmap.callback.initial_render = r.initial_render,
                             ![t].invoked = TRUE]
            /\ call' = [op |-> "callback", tsplot |-> t,
                        x |-> click[1], y |-> click[2], image |-> image,
                        first |-> ~tsplots[t].invoked,
                        tested |-> r.tested, returned |-> r.plot]
    /\ UNCHANGED <<plots, mesh_vars, ui_vars>>

NextTs ==
    \/ MainPlot
    \/ MeshPlot
    \/ NodesPlot
    \/ Zoom
    \/ PlotTs
    \/ Callback

SpecTs == InitTs /\ [][NextTs]_vars

\* ---------------------------------------------------------------- the web UI

\* A timestamp of a dataset: day of January 2000, second of the day, nanoseconds
Timestamp(day, second, ns) == [day |-> day, second |-> second, ns |-> ns]

\* v.strftime("%Y-%m-%d %H-%M-%S"): the text of the day and of the time of the
\* day, to the second
strftime(v) ==
    CASE v.day = 1 /\ v.second = 0 -> "2000-01-01 00-00-00"
      [] v.day = 1 /\ v.second = 1 -> "2000-01-01 00-00-01"
      [] v.day = 2 /\ v.second = 0 -> "2000-01-02 00-00-00"
      [] v.day = 2 /\ v.second = 1 -> "2000-01-02 00-00-01"

\* A variable of a file that holds numbers, and one that holds timestamps
Numbers(name) == [name |-> name, datetimelike |-> FALSE, values |-> <<>>]

Datetimes(name, values) == [name |-> name, datetimelike |-> TRUE, values |-> values]

\* The files that DATA_GLOB can find and xarray can open, sorted by path, with
\* the variables of each in the order of the file
DataFiles ==
    << [path |-> "data/generic.nc",
        variables |-> << Numbers("z"), Numbers("x"), Numbers("y"), Numbers("tri"),
                         Datetimes("t", << Timestamp(2, 0, 0), Timestamp(1, 0, 0),
                                           Timestamp(1, 0, 500) >>) >>],
       [path |-> "data/hours.nc",
        variables |-> << Datetimes("t", << Timestamp(1, 1, 0) >>),
                         Numbers("x"), Numbers("y"), Numbers("tri"),
                         Datetimes("when", << Timestamp(2, 1, 0), Timestamp(2, 0, 0) >>) >>],
       [path |-> "data/nodes.nc",
        variables |-> << Numbers("z"), Numbers("x"), Numbers("y"), Numbers("tri"),
                         Numbers("node") >>],
       [path |-> "data/schism.nc",
        variables |-> << Datetimes("time", << Timestamp(1, 0, 0), Timestamp(1, 1, 0) >>),
                         Numbers("SCHISM_hgrid_node_x"), Numbers("SCHISM_hgrid_node_y"),
                         Numbers("elev"), Numbers("SCHISM_hgrid_face_nodes") >>],
       [path |-> "data/short.nc",
        variables |-> << Numbers("x"), Numbers("y"), Numbers("z") >>] >>

\* xr.Dataset()
EmptyDataset == [path |-> None, load |-> FALSE, variables |-> <<>>]

\* utils.open_dataset(path, load=load): the dataset of the file
utils_open_dataset(path, load) ==
    IF \E i \in 1..Len(DataFiles) : DataFiles[i].path = path
    THEN LET file == DataFiles[CHOOSE i \in 1..Len(DataFiles) : DataFiles[i].path = path]
         IN  Returned([path |-> path, load |-> load, variables |-> file.variables])
    ELSE Raised("ValueError")

\* list(dataset.variables.keys())
variables_keys(dataset) == [i \in 1..Len(dataset.variables) |-> dataset.variables[i].name]

\* dataset[name]
getitem(dataset, name) ==
    dataset.variables[CHOOSE i \in 1..Len(dataset.variables) :
                        dataset.variables[i].name = name]

\* utils.inject_maximum_at_timestamp(dataset, time_var, timestamp): the dataset
\* with the maximum at the timestamp; the caller's dataset is left as it was
utils_inject_maximum_at_timestamp(dataset, time_var, timestamp) ==
    [dataset EXCEPT !.path = <<dataset.path, "maximum", time_var, timestamp>>]

\* visuals.get_trimesh(dataset, ..., timestamp=timestamp)
visuals_get_trimesh(dataset, longitude_var, latitude_var, elevation_var, simplices_var, time_var, timestamp) ==
    [dataset |-> dataset, longitude_var |-> longitude_var,
     latitude_var |-> latitude_var, elevation_var |-> elevation_var,
     simplices_var |-> simplices_var, time_var |-> time_var,
     timestamp |-> timestamp]

\* visuals.get_elevation_dmap(trimesh, show_grid=show_grid)
visuals_get_elevation_dmap(trimesh, show_grid) ==
    [trimesh |-> trimesh, show_grid |-> show_grid]

\* pn.widgets.Select
Select(options, value) == [options |-> options, value |-> value]

\* A callback registered for the value of the dataset-file selector
watch(fn, widget, index, schism_name) ==
    [fn |-> fn, widget |-> widget, index |-> index, schism_name |-> schism_name]

\* The same callbacks with the one of the timestamp registered before the one
\* of the time selector
watchers_timestamp_first ==
    << watch("_update_dataset_file", None, 0, None),
       watch("_set_variable", "longitude_var", 1, "SCHISM_hgrid_node_x"),
       watch("_set_variable", "latitude_var", 2, "SCHISM_hgrid_node_y"),
       watch("_set_variable", "elevation_var", 0, "elev"),
       watch("_set_variable", "simplices_var", 3, "SCHISM_hgrid_face_nodes"),
       watch("_update_timestamp", None, 0, None),
       watch("_set_variable", "time_var", 4, "time") >>

\* _define_callbacks: the callbacks of the dataset-file selector, in the order
\* of their registration, which is the order in which param calls them
watchers ==
    << watch("_update_dataset_file", None, 0, None),
       watch("_set_variable", "longitude_var", 1, "SCHISM_hgrid_node_x"),
       watch("_set_variable", "latitude_var", 2, "SCHISM_hgrid_node_y"),
       watch("_set_variable", "elevation_var", 0, "elev"),
       watch("_set_variable", "simplices_var", 3, "SCHISM_hgrid_face_nodes"),
       watch("_set_variable", "time_var", 4, "time"),
       watch("_update_timestamp", None, 0, None) >>

\* UserInterface.__init__ up to the call of _populate_widgets, for the paths
\* that the glob found: a selector with options takes the first as its value.
\* _main is the empty column that __init__ creates when the callbacks have run;
\* event and error are the widget event being handled and the exception that
\* ended it, before is the timestamp selected when the event arrived.
UserInterface(paths) ==
    [constructed   |-> TRUE,
     _dataset      |-> EmptyDataset,
     _variables    |-> <<>>,
     dataset_file  |-> Select(paths, IF paths = <<>> THEN None ELSE paths[1]),
     longitude_var |-> Select(<<>>, None),
     latitude_var  |-> Select(<<>>, None),
     elevation_var |-> Select(<<>>, None),
     simplices_var |-> Select(<<>>, None),
     time_var      |-> Select(<<>>, None),
     timestamp     |-> Select(<<>>, None),
     show_grid     |-> FALSE,
     _main         |-> [objects |-> <<>>],
     event         |-> "__init__",
     error         |-> "none",
     before        |-> None]

\* The callback raised: param calls none of the callbacks after it
raise(u, exception) == [u EXCEPT !.error = exception]

\* _update_dataset_file
update_dataset_file(u) ==
    LET opened == utils_open_dataset(u.dataset_file.value, FALSE)
    IN  IF opened.raised # "none"
        THEN raise(u, opened.raised)
        ELSE [u EXCEPT !._dataset = opened.value,
                       !._variables = variables_keys(opened.value)]

\* _set_variable: widget is the name of the attribute that holds the selector
set_variable(u, widget, index, schism_name) ==
    IF isin(schism_name, u._variables)
    THEN [u EXCEPT ![widget] = Select(u._variables, schism_name)]
    ELSE IF index + 1 > Len(u._variables)
         THEN raise(u, "IndexError")
         ELSE [u EXCEPT ![widget] = Select(u._variables, u._variables[index + 1])]

\* _update_timestamp: .dt exists for a variable of timestamps only
update_timestamp(u) ==
    IF ~isin(u.time_var.value, u._variables)
    THEN raise(u, "KeyError")
    ELSE LET variable == getitem(u._dataset, u.time_var.value)
             dataset_timestamps == variable.values
             dataset_options ==
                <<"MAXIMUM">> \o [i \in 1..Len(dataset_timestamps) |->
                                    strftime(dataset_timestamps[i])]
         IN  IF ~variable.datetimelike
             THEN raise(u, "AttributeError")
             ELSE [u EXCEPT !.timestamp = Select(dataset_options, "MAXIMUM")]

\* The timestamp_for_maximum of __init__: its default
timestamp_for_maximum == "1900-01-01"

\* _update_main: the plot is built and the column is given no object
update_main(u) ==
    LET opened == utils_open_dataset(u.dataset_file.value, TRUE)
        injected == utils_inject_maximum_at_timestamp(
                        opened.value, u.time_var.value, timestamp_for_maximum)
        trimesh == visuals_get_trimesh(
                        opened.value, u.longitude_var.value, u.latitude_var.value,
                        u.elevation_var.value, u.simplices_var.value,
                        u.time_var.value, u.timestamp.value)
        dmap == visuals_get_elevation_dmap(trimesh, u.show_grid)
    IN  IF opened.raised # "none"
        THEN raise(u, opened.raised)
        ELSE [u EXCEPT !._dataset = opened.value,
                       !._main = [objects |-> <<>>]]

\* ---------------------------------------------------- the events of the web UI

MaxFiles == 2

\* The selectors of variables, and those that the user changes here
VariableSelectors ==
    {"longitude_var", "latitude_var", "elevation_var", "simplices_var", "time_var"}

UserSelectors == {"elevation_var", "time_var"}

\* The paths of the files numbered by S, sorted
paths_of(S) == [j \in 1..Cardinality(S) |-> DataFiles[Nth(S, j)].path]

\* __init__ has created the widgets and registered the callbacks, and
\* _populate_widgets has triggered the dataset-file selector
InitUI ==
    /\ ds = EmptyDs
    /\ orig = EmptyDs
    /\ call = NoCall
    /\ plots = <<>>
    /\ tsplots = <<>>
    /\ \E S \in SUBSET (1..Len(DataFiles)) :
        /\ Cardinality(S) <= MaxFiles
        /\ ui = UserInterface(paths_of(S))
    /\ queue = watchers

\* What is left to call after a callback returned with the interface as u
rest(u) == IF u.error # "none" THEN <<>> ELSE Tail(queue)

\* __init__ has returned, and no widget event is being handled
Idle ==
    /\ ui.constructed
    /\ queue = <<>>
    /\ ~(ui.event = "__init__" /\ ui.error # "none")

\* The user selects another dataset file
SelectDatasetFile ==
    /\ Idle
    /\ \E i \in 1..Len(ui.dataset_file.options) :
        /\ ui.dataset_file.options[i] # ui.dataset_file.value
        /\ ui' = [ui EXCEPT !.dataset_file.value = ui.dataset_file.options[i],
                            !.event = "dataset_file",
                            !.error = "none",
                            !.before = ui.timestamp.value]
    /\ queue' = watchers
    /\ UNCHANGED <<mesh_vars, call, plot_vars>>

UpdateDatasetFile ==
    /\ queue # <<>>
    /\ Head(queue).fn = "_update_dataset_file"
    /\ ui' = update_dataset_file(ui)
    /\ queue' = rest(ui')
    /\ UNCHANGED <<mesh_vars, call, plot_vars>>

SetVariable ==
    /\ queue # <<>>
    /\ Head(queue).fn = "_set_variable"
    /\ ui' = set_variable(ui, Head(queue).widget, Head(queue).index,
                          Head(queue).schism_name)
    /\ queue' = rest(ui')
    /\ UNCHANGED <<mesh_vars, call, plot_vars>>

UpdateTimestamp ==
    /\ queue # <<>>
    /\ Head(queue).fn = "_update_timestamp"
    /\ ui' = update_timestamp(ui)
    /\ queue' = rest(ui')
    /\ UNCHANGED <<mesh_vars, call, plot_vars>>

\* The user selects a variable or a timestamp, or ticks Show Wireframe
SelectVariable ==
    /\ Idle
    /\ \E widget \in UserSelectors :
        \E i \in 1..Len(ui[widget].options) :
            /\ ui[widget].options[i] # ui[widget].value
            /\ ui' = [ui EXCEPT ![widget].value = ui[widget].options[i],
                                !.event = "variable",
                                !.error = "none"]
    /\ UNCHANGED <<mesh_vars, call, plot_vars, queue>>

SelectTimestamp ==
    /\ Idle
    /\ \E i \in 1..Len(ui.timestamp.options) :
        /\ ui.timestamp.options[i] # ui.timestamp.value
        /\ ui' = [ui EXCEPT !.timestamp.value = ui.timestamp.options[i],
                            !.event = "timestamp",
                            !.error = "none"]
    /\ UNCHANGED <<mesh_vars, call, plot_vars, queue>>

ShowGrid ==
    /\ Idle
    /\ ui' = [ui EXCEPT !.show_grid = ~ui.show_grid,
                        !.event = "show_grid",
                        !.error = "none"]
    /\ UNCHANGED <<mesh_vars, call, plot_vars, queue>>

\* The user clicks Render
UpdateMain ==
    /\ Idle
    /\ ui' = update_main([ui EXCEPT !.event = "render", !.error = "none"])
    /\ UNCHANGED <<mesh_vars, call, plot_vars, queue>>

NextUI ==
    \/ SelectDatasetFile
    \/ UpdateDatasetFile
    \/ SetVariable
    \/ UpdateTimestamp
    \/ SelectVariable
    \/ SelectTimestamp
    \/ ShowGrid
    \/ UpdateMain

SpecUI == InitUI /\ [][NextUI]_vars

\* =================================================================== claims

\* (x, y) is inside the box t = (minx, miny, maxx, maxy), bounds included
InBox(x, y, t) == t[1] <= x /\ x <= t[3] /\ t[2] <= y /\ y <= t[4]

\* The box of a bbox argument that is a tuple or None (the whole world)
BoxOf(bbox) == IF bbox.kind = "tuple" THEN bbox.t ELSE <<-180, -90, 180, 90>>

\* The positions (1-based) of the nodes of dataset d inside box t
NodesInBox(d, t) == {i \in 1..Len(d.node) : InBox(d.lon[i], d.lat[i], t)}

\* The positions (1-based) of the triangles of d whose three nodes are inside t
TrianglesInBox(d, t) ==
    {k \in 1..Len(d.triface_nodes) :
        \A c \in 1..3 : (d.triface_nodes[k][c] + 1) \in NodesInBox(d, t)}

\* The positions (1-based) of the triangles of d that node position i belongs to
TrianglesOf(d, i) ==
    {k \in 1..Len(d.triface_nodes) :
        \E c \in 1..3 : d.triface_nodes[k][c] + 1 = i}

\* C1: crop(ds, (minx, miny, maxx, maxy)) keeps exactly the nodes with
\* minx <= lon <= maxx and miny <= lat <= maxy, in their original relative
\* order, with their labels, longitudes and latitudes; whether a node belongs
\* to a kept triangle plays no part.
CropKeepsExactlyTheNodesInTheBox ==
    (call.op = "crop" /\ call.bbox.kind = "tuple") =>
        LET in == call.ds
            kept == NodesInBox(in, call.bbox.t)
        IN  /\ Len(ds.node) = Cardinality(kept)
            /\ Len(ds.lon) = Cardinality(kept)
            /\ Len(ds.lat) = Cardinality(kept)
            /\ \A j \in 1..Len(ds.node) :
                /\ ds.node[j] = in.node[Nth(kept, j)]
                /\ ds.lon[j] = in.lon[Nth(kept, j)]
                /\ ds.lat[j] = in.lat[Nth(kept, j)]

\* C1 witness: a crop by a box dropped a node, kept a node on the box's edge and
\* kept a node all of whose triangles were removed.
CropKeptANodeWithoutTriangles ==
    /\ call.op = "crop"
    /\ call.bbox.kind = "tuple"
    /\ LET in == call.ds
           kept == NodesInBox(in, call.bbox.t)
       IN  /\ kept # 1..Len(in.node)
           /\ \E i \in kept : in.lon[i] = call.bbox.t[3]
           /\ \E i \in kept :
                /\ TrianglesOf(in, i) # {}
                /\ \A k \in TrianglesOf(in, i) :
                     in.triface[k] \notin Range(ds.triface)
                /\ in.node[i] \in Range(ds.node)

\* C2: crop keeps a triangle if and only if its three nodes are inside the
\* bounding box, and the kept triangles keep their original relative order.
CropKeepsExactlyTheTrianglesInTheBox ==
    (call.op = "crop" /\ call.bbox.kind \in {"tuple", "none"}) =>
        LET in == call.ds
            kept == TrianglesInBox(in, BoxOf(call.bbox))
        IN  /\ Len(ds.triface) = Cardinality(kept)
            /\ Len(ds.triface_nodes) = Cardinality(kept)
            /\ \A j \in 1..Len(ds.triface) :
                ds.triface[j] = in.triface[Nth(kept, j)]

\* C2 witness: a crop by a box kept one triangle and removed another one that
\* has a node inside the box and a node outside of it.
CropRemovedAPartlyInsideTriangle ==
    /\ call.op = "crop"
    /\ call.bbox.kind = "tuple"
    /\ LET in == call.ds
           inside == NodesInBox(in, call.bbox.t)
       IN  /\ Len(ds.triface) >= 1
           /\ \E k \in 1..Len(in.triface_nodes) :
                /\ in.triface[k] \notin Range(ds.triface)
                /\ \E c \in 1..3 : (in.triface_nodes[k][c] + 1) \in inside
                /\ \E c \in 1..3 : (in.triface_nodes[k][c] + 1) \notin inside

\* The point p is inside or on the boundary of the convex polygon whose
\* vertices the ring lists counter-clockwise.
Covers(ring, p) ==
    \A e \in 1..Len(ring) :
        LET a == ring[e]
            b == ring[IF e = Len(ring) THEN 1 ELSE e + 1]
        IN  (b[1] - a[1]) * (p[2] - a[2]) - (b[2] - a[2]) * (p[1] - a[1]) >= 0

\* C3: when bbox is a polygon that is not a rectangle, crop keeps a node only
\* if the node lies within the polygon.
CropByPolygonKeepsOnlyNodesWithinIt ==
    (call.op = "crop" /\ call.bbox.kind = "polygon") =>
        \A j \in 1..Len(ds.node) :
            Covers(call.bbox.ring, <<ds.lon[j], ds.lat[j]>>)

\* Two longitudes of different sign
DifferentSign(x, y) == (x < 0 /\ y > 0) \/ (x > 0 /\ y < 0)

\* The positions (1-based) of the triangles of d with a pair of nodes whose
\* longitudes have different sign and differ by more than max_lon
TrianglesFartherThan(d, max_lon) ==
    {k \in 1..Len(d.triface_nodes) :
        \E c1, c2 \in 1..3 :
            LET x == d.lon[d.triface_nodes[k][c1] + 1]
                y == d.lon[d.triface_nodes[k][c2] + 1]
            IN  DifferentSign(x, y) /\ Abs(x - y) > max_lon}

\* C4: drop_elements_crossing_idl(ds, max_lon) removes a triangle exactly when
\* two of its nodes have longitudes of different sign whose absolute difference
\* is greater than max_lon, and keeps every other triangle in its order.
DropRemovesExactlyThePairsFartherThanMaxLon ==
    (call.op = "drop_elements_crossing_idl" /\ call.raised = "none") =>
        LET in == call.ds
            kept == (1..Len(in.triface_nodes))
                        \ TrianglesFartherThan(in, call.max_lon)
        IN  /\ Len(ds.triface) = Cardinality(kept)
            /\ Len(ds.triface_nodes) = Cardinality(kept)
            /\ \A j \in 1..Len(ds.triface) :
                /\ ds.triface[j] = in.triface[Nth(kept, j)]
                /\ ds.triface_nodes[j] = in.triface_nodes[Nth(kept, j)]

\* A dataset: one lon and one lat per node, one row of three valid node
\* positions per triangle
IsDataset(d) ==
    /\ Len(d.lon) = Len(d.node)
    /\ Len(d.lat) = Len(d.node)
    /\ Len(d.triface_nodes) = Len(d.triface)
    /\ \A k \in 1..Len(d.triface_nodes) :
        \A c \in 1..3 : d.triface_nodes[k][c] \in 0..(Len(d.node) - 1)

\* C5: drop_elements_crossing_idl raises ValueError for every max_lon <= 0,
\* before it has read the longitudes of any triangle or dropped one, and for
\* every max_lon > 0 it raises nothing and returns a dataset.
DropRaisesExactlyForNonPositiveMaxLon ==
    (call.op = "drop_elements_crossing_idl") =>
        /\ (call.max_lon <= 0) =>
            /\ call.raised = "ValueError"
            /\ call.examined = 0
            /\ ds = call.ds
        /\ (call.max_lon > 0) =>
            /\ call.raised = "none"
            /\ IsDataset(ds)

\* C5 witness: max_lon = 0 was refused on a dataset that has a triangle whose
\* nodes lie on both sides of the date line.
DropRefusedZero ==
    /\ call.op = "drop_elements_crossing_idl"
    /\ call.max_lon = 0
    /\ call.raised = "ValueError"
    /\ \E k \in 1..Len(ds.triface_nodes) : \E c1, c2 \in 1..3 :
        DifferentSign(ds.lon[ds.triface_nodes[k][c1] + 1],
                      ds.lon[ds.triface_nodes[k][c2] + 1])

\* The positions (1-based) of the quads among the rows of a 4-column face array
QuadsOf(rows) == {r \in 1..Len(rows) : rows[r][4] # NaN}

SquaredDistance(d, i, lon, lat) ==
    (d.lon[i] - lon) * (d.lon[i] - lon) + (d.lat[i] - lat) * (d.lat[i] - lat)

\* C7: for a dataset with at least one node, get_index_of_nearest_node returns
\* a position in 0..n-1 at minimal squared distance to (lon, lat), and the
\* lowest such position.
NearestNodeIsTheFirstAtMinimalDistance ==
    (call.op = "get_index_of_nearest_node") =>
        LET d == call.ds
            n == Len(d.node)
            D(i) == SquaredDistance(d, i, call.lon, call.lat)
            r == call.result + 1
        IN  /\ call.result \in 0..(n - 1)
            /\ \A i \in 1..n : D(r) <= D(i)
            /\ \A i \in 1..(r - 1) : D(i) > D(r)

\* C7 witness: two nodes are at the minimal distance, and a farther node
\* comes before them.
NearestNodeBrokeATie ==
    /\ call.op = "get_index_of_nearest_node"
    /\ LET d == call.ds
           D(i) == SquaredDistance(d, i, call.lon, call.lat)
           r == call.result + 1
       IN  /\ r > 1
           /\ \E i \in (r + 1)..Len(d.node) : D(i) = D(r)

\* C8: plot raises ValueError unless the dimensions of the variable are exactly
\* ('node',), whether 'node' is missing or comes with other dimensions, and
\* then it has created no trimesh, raster or tiles; a variable is plotted only
\* when 'time' is not among its dimensions.
PlotAcceptsOnlyNodeAsDimensions ==
    (call.op = "plot") =>
        /\ (call.dims # <<"node">>) =>
            /\ call.raised = "ValueError"
            /\ call.created = <<>>
            /\ call.components = <<>>
        /\ (call.dims = <<"node">>) =>
            /\ call.raised = "none"
            /\ "raster" \in Range(call.created)
        /\ (call.raised = "none") => "time" \notin Range(call.dims)

\* C8 witness: plot refused a variable with the dimensions ('time', 'node').
PlotRefusedATimeDependentVariable ==
    /\ call.op = "plot"
    /\ call.dims = <<"time", "node">>
    /\ call.raised = "ValueError"
    /\ call.created = <<>>

\* A variable that is neither lon nor lat and whose dimensions are, in this
\* order, node, or time and node, or time, node and layer
Visualizable(var_dims, v) ==
    /\ v # "lon"
    /\ v # "lat"
    /\ \/ var_dims[v] = <<"node">>
       \/ var_dims[v] = <<"time", "node">>
       \/ var_dims[v] = <<"time", "node", "layer">>

\* C9: filter_visualizable_data_vars returns, in input order, exactly the given
\* variables that are neither lon nor lat and whose dimension tuple is, order
\* included, ('node',), ('time', 'node') or ('time', 'node', 'layer').
FilterKeepsExactlyTheVisualizableVariables ==
    (call.op = "filter_visualizable_data_vars") =>
        LET keep(v) == Visualizable(call.var_dims, v)
        IN  call.result = SelectSeq(call.variables, keep)

\* C9 witness: lon, a variable over ('node', 'time') and a variable over
\* ('time', 'node') were given, and only the last one was returned.
FilterRefusedAnotherOrderOfDimensions ==
    /\ call.op = "filter_visualizable_data_vars"
    /\ call.var_dims.depth = <<"node", "time">>
    /\ call.var_dims.zeta = <<"time", "node">>
    /\ call.variables = <<"lon", "depth", "zeta">>
    /\ call.result = <<"zeta">>

\* C10: whatever keyword arguments the caller passes, neta, nvel, max_nvdll and
\* max_nvell are in the drop_variables handed to xarray.open_dataset.
OpenDatasetAlwaysDropsTheAdcircVariables ==
    (call.op = "open_dataset") =>
        /\ "drop_variables" \in DOMAIN call.passed
        /\ {"neta", "nvel", "max_nvdll", "max_nvell"}
                \subseteq Range(call.passed["drop_variables"])

\* The keyword arguments of every rasterize() of the last call: those of
\* get_raster or get_wireframe, or those of the raster and of the wireframe
\* among the components of plot
RasterizedBy(c) ==
    IF c.op \in {"get_raster", "get_wireframe"}
    THEN {c.returned.rasterize}
    ELSE IF c.op = "plot"
    THEN {c.components[k].rasterize :
            k \in {j \in 1..Len(c.components) :
                     "rasterize" \in DOMAIN c.components[j]}}
    ELSE {}

\* C11: the rasterizer gets x_range as (x of lon_min, x of lon_max) and y_range
\* as (y of lat_min, y of lat_max) in Web Mercator, and a range that was not
\* given is not set.
RasterizerGetsTheRequestedMinimaAndMaxima ==
    \A kwargs \in RasterizedBy(call) :
        /\ IF call.x_range = None
           THEN "x_range" \notin DOMAIN kwargs
           ELSE /\ "x_range" \in DOMAIN kwargs
                /\ kwargs.x_range =
                     <<merc_x(call.x_range[1]), merc_x(call.x_range[2])>>
        /\ IF call.y_range = None
           THEN "y_range" \notin DOMAIN kwargs
           ELSE /\ "y_range" \in DOMAIN kwargs
                /\ kwargs.y_range =
                     <<merc_y(call.y_range[1]), merc_y(call.y_range[2])>>

\* The Points element of the last call: the one get_nodes returned, or the
\* second component of the overlay plot_nodes returned
NodesElementOf(c) ==
    IF c.op = "get_nodes" THEN c.returned ELSE c.returned.overlay[2]

\* C12: the Points element returned by get_nodes and plot_nodes carries the
\* ranges resolved from x_range and y_range, so that calls with different
\* ranges return elements with different ranges.
NodesElementCarriesTheResolvedRanges ==
    (call.op \in {"get_nodes", "plot_nodes"}) =>
        LET resolved == resolve_ranges(call.x_range, call.y_range,
                                       [x \in {} |-> TRUE])
            opts == NodesElementOf(call).opts
        IN  \A k \in DOMAIN resolved :
                k \in DOMAIN opts /\ opts[k] = resolved[k]

\* What a component of an overlay is
IsTiles(c) == c.type = "WMTS"

IsRaster(c) == "rasterize" \in DOMAIN c /\ c.rasterize.element[1] = "trimesh"

IsWireframe(c) ==
    "rasterize" \in DOMAIN c /\ c.rasterize.element[1] = "edgepaths"

IsNodes(c) == c.type = "Points"

\* The trimeshes the components of an overlay were built from
TrimeshesOf(components) ==
    {components[k].rasterize.element[2] :
        k \in {j \in 1..Len(components) : "rasterize" \in DOMAIN components[j]}}
    \cup
    {components[k].data[2] :
        k \in {j \in 1..Len(components) : IsNodes(components[j])}}

\* C13: the overlay plot returns holds the tiles, then the raster, then the
\* wireframe iff show_mesh, then the nodes iff show_nodes, and nothing else;
\* all of them are built from the one trimesh that plot created.
PlotOverlaysTilesRasterWireframeNodesInThisOrder ==
    (call.op = "plot" /\ call.raised = "none") =>
        LET c == call.returned.overlay
            n == Len(c)
        IN  /\ c = call.components
            /\ n = 2 + (IF call.show_mesh THEN 1 ELSE 0)
                     + (IF call.show_nodes THEN 1 ELSE 0)
            /\ IsTiles(c[1])
            /\ IsRaster(c[2])
            /\ call.show_mesh => IsWireframe(c[3])
            /\ call.show_nodes => IsNodes(c[n])
            /\ \A k \in 3..n : IsWireframe(c[k]) \/ IsNodes(c[k])
            /\ \A k \in 3..n : IsWireframe(c[k]) => call.show_mesh /\ k = 3
            /\ \A k \in 3..n : IsNodes(c[k]) => call.show_nodes /\ k = n
            /\ TrimeshesOf(c) = {1}

\* C13 witness: plot returned tiles, raster, wireframe and nodes.
PlotOverlaidWireframeAndNodes ==
    /\ call.op = "plot"
    /\ call.raised = "none"
    /\ call.show_mesh
    /\ call.show_nodes
    /\ Len(call.returned.overlay) = 4
    /\ IsWireframe(call.returned.overlay[3])
    /\ IsNodes(call.returned.overlay[4])

\* C14: plot_ts attaches a Tap stream to the raster that plot built for the
\* source plot, which is the raster recorded on the object plot returned; on
\* an object returned by plot_mesh or plot_nodes, which carries no raster,
\* plot_ts raises and returns no time-series plot.
PlotTsTapsTheRasterOfItsSourcePlot ==
    /\ \A k \in 1..Len(plots) :
        IF plots[k].made_by = "plot"
        THEN /\ "_raster" \in DOMAIN plots[k].dmap
             /\ plots[k].dmap._raster = plots[k].dmap.overlay[2]
             /\ IsRaster(plots[k].dmap.overlay[2])
        ELSE "_raster" \notin DOMAIN plots[k].dmap
    /\ \A t \in 1..Len(tsplots) :
        \E k \in 1..Len(plots) :
            /\ plots[k].made_by = "plot"
            /\ tsplots[t].dmap.stream.source = plots[k].dmap.overlay[2]
    /\ (call.op = "plot_ts") =>
        LET p == plots[call.source_plot]
        IN  IF p.made_by = "plot"
            THEN /\ call.raised = "none"
                 /\ call.returned.stream.class = "Tap"
                 /\ call.returned.stream.source = p.dmap.overlay[2]
                 /\ call.returned.callback.source_raster = p.dmap.overlay[2]
                 /\ tsplots[Len(tsplots)].dmap = call.returned
            ELSE /\ call.raised = "AttributeError"
                 /\ call.returned = None

\* C14 witness: of two plots with a raster each, plot_ts was given the first.
PlotTsTappedTheFirstOfTwoRasters ==
    /\ call.op = "plot_ts"
    /\ call.raised = "none"
    /\ call.source_plot = 1
    /\ Len(plots) = 2
    /\ plots[2].made_by = "plot"
    /\ plots[2].dmap._raster # plots[1].dmap._raster
    /\ call.returned.stream.source = plots[1].dmap._raster

\* The placeholder graph: no timestamp, and the request to click
IsPlaceholder(curve) ==
    /\ curve.time = <<>>
    /\ curve.data = <<>>
    /\ curve.title = [template |-> "Please click on the map!"]

\* The full time series of the node at position i (1-based) of d, titled with
\* the node's index, lon and lat
IsSeriesOfNode(curve, d, i) ==
    /\ curve.time = d.time
    /\ curve.data = [t \in 1..Len(d.time) |-> d.zeta[t][i]]
    /\ curve.title.node_index = i - 1
    /\ curve.title.lon = d.lon[i]
    /\ curve.title.lat = d.lat[i]

\* C18: the first invocation of the click callback returns the placeholder
\* whatever the coordinates and without testing them against the raster; a
\* later invocation returns the placeholder for a point outside the raster and
\* otherwise the full time series of the node nearest to the point; once an
\* invocation has completed, the callback is never in its initial state again.
ClickCallbackIsATwoStateMachine ==
    /\ \A t \in 1..Len(tsplots) :
        tsplots[t].dmap.callback.initial_render = ~tsplots[t].invoked
    /\ (call.op = "callback") =>
        LET d == tsplots[call.tsplot].dmap.callback.ds
            inside == /\ <<call.x, call.y>> \in DOMAIN call.image
                      /\ call.image[<<call.x, call.y>>] # NaN
        IN  IF call.first
            THEN IsPlaceholder(call.returned) /\ ~call.tested
            ELSE /\ call.tested
                 /\ ~inside => IsPlaceholder(call.returned)
                 /\ inside =>
                     \E lon \in -180..180 : \E lat \in Latitudes :
                     \E i \in 1..Len(d.lon) :
                        /\ transform(lon, lat) = <<call.x, call.y>>
                        /\ \A j \in 1..Len(d.lon) :
                             SquaredDistance(d, i, lon, lat)
                                <= SquaredDistance(d, j, lon, lat)
                        /\ IsSeriesOfNode(call.returned, d, i)

\* C18 witness: a later invocation for a point inside the raster returned the
\* time series of the node at index 2.
ClickShowedTheSeriesOfTheNearestNode ==
    /\ call.op = "callback"
    /\ ~call.first
    /\ call.tested
    /\ call.returned.time = <<1, 2>>
    /\ call.returned.data = <<30, 31>>
    /\ call.returned.title.node_index = 2

\* s without its entry at position p
Without(s, p) == SubSeq(s, 1, p - 1) \o SubSeq(s, p + 1, Len(s))

\* C16: inject_maximum returns a dataset with exactly one more entry along the
\* dimension named by time_var; the new entry lies at the given timestamp and
\* holds the maximum over the original timestamps for every node; the
\* original entries are kept unchanged and in their order.
InjectMaximumAddsOneEntryAtTheTimestamp ==
    (call.op = "inject_maximum") =>
        LET d == call.dataset
            r == call.result
            old == d.coords[call.time_var]
        IN  /\ r.raised = "none"
            /\ call.time_var \in DOMAIN r.value.coords
            /\ Len(r.value.coords[call.time_var]) = Len(old) + 1
            /\ Len(r.value.data) = Len(old) + 1
            /\ \E p \in 1..(Len(old) + 1) :
                /\ r.value.coords[call.time_var][p] =
                     (IF call.timestamp = "1900-01-01" THEN 19000101
                                                       ELSE 19500615)
                /\ \A i \in 1..2 :
                     /\ \A t \in 1..Len(old) : r.value.data[p][i] >= d.data[t][i]
                     /\ \E t \in 1..Len(old) : r.value.data[p][i] = d.data[t][i]
                /\ Without(r.value.coords[call.time_var], p) = old
                /\ Without(r.value.data, p) = d.data

\* C16 restricted to a time variable that is called 'time_var'
InjectMaximumAddsOneEntryIfTheNameIsTimeVar ==
    (call.op = "inject_maximum" /\ call.time_var = "time_var") =>
        InjectMaximumAddsOneEntryAtTheTimestamp

\* The (lon, lat) of the three nodes of the triangle in row r (1-based) of d
CornersOf(d, r) ==
    [c \in 1..3 |-> << d.lon[d.triface_nodes[r][c] + 1],
                       d.lat[d.triface_nodes[r][c] + 1] >>]

\* C17: after any sequence of crop and drop_elements_crossing_idl every entry
\* of triface_nodes is a position 0..n-1 of the node list, and every triangle
\* that is left has the three nodes, by lon and lat, that it had in the
\* original dataset.  A triangle is recognised by its label on the triface
\* coordinate, which in the original dataset is its row number.
TrianglesKeepTheirNodes ==
    /\ \A r \in 1..Len(ds.triface_nodes) : \A c \in 1..3 :
        ds.triface_nodes[r][c] \in 0..(Len(ds.node) - 1)
    /\ Len(ds.triface) = Len(ds.triface_nodes)
    /\ \A r \in 1..Len(ds.triface_nodes) :
        /\ ds.triface[r] + 1 \in 1..Len(orig.triface_nodes)
        /\ CornersOf(ds, r) = CornersOf(orig, ds.triface[r] + 1)

\* C17 witness: after a crop that renumbered the nodes of a triangle, a call of
\* drop_elements_crossing_idl left that triangle in the dataset.
DropKeptARenumberedTriangle ==
    /\ call.op = "drop_elements_crossing_idl"
    /\ call.raised = "none"
    /\ Len(ds.node) < Len(orig.node)
    /\ \E r \in 1..Len(ds.triface_nodes) :
        ds.triface_nodes[r] # orig.triface_nodes[ds.triface[r] + 1]

\* The dataset or array that the caller passed to the last call, as it was
\* before the call
ArgumentOf(c) == IF c.op = "split_quads" THEN c.face_nodes ELSE c.ds

\* The last call of crop or drop_elements_crossing_idl left the caller's
\* dataset as it was; one that returned did so with a new dataset; and
\* drop_elements_crossing_idl changed nothing but the triangles
MeshCallsLeaveTheirArgumentAlone ==
    /\ (call.op \in {"crop", "drop_elements_crossing_idl", "split_quads"}) =>
        call.arg = ArgumentOf(call)
    /\ (call.op = "crop") => call.ref = "new"
    /\ (call.op = "drop_elements_crossing_idl" /\ call.raised = "none") =>
        /\ call.ref = "new"
        /\ ds.node = call.ds.node
        /\ ds.lon = call.ds.lon
        /\ ds.lat = call.ds.lat
        /\ Range(ds.triface_nodes) \subseteq Range(call.ds.triface_nodes)
        /\ Range(ds.triface) \subseteq Range(call.ds.triface)

\* C20 as stated: crop, drop_elements_crossing_idl and split_quads leave what
\* the caller passed unchanged and return a new value, and
\* drop_elements_crossing_idl changes nothing but the set of triangles.
MeshCallsReturnANewValue ==
    /\ MeshCallsLeaveTheirArgumentAlone
    /\ (call.op = "split_quads") => call.ref = "new"

\* C20, amended: crop, drop_elements_crossing_idl and split_quads leave what
\* the caller passed unchanged; crop and drop_elements_crossing_idl return a
\* new dataset, split_quads returns a new array for an array of four columns
\* and the caller's own array otherwise; drop_elements_crossing_idl changes
\* nothing but the set of triangles.
MeshCallsReturnANewValueButForThreeColumns ==
    /\ MeshCallsLeaveTheirArgumentAlone
    /\ (call.op = "split_quads") =>
        /\ (call.face_nodes.ncols = 4) => call.ref = "new"
        /\ (call.face_nodes.ncols # 4) =>
            call.ref = "arg" /\ call.result = call.face_nodes

\* C20 witness: drop_elements_crossing_idl returned a new dataset with fewer
\* triangles and the same nodes, and the caller's dataset is as it was.
DropReturnedANewDatasetWithFewerTriangles ==
    /\ call.op = "drop_elements_crossing_idl"
    /\ call.raised = "none"
    /\ call.ref = "new"
    /\ call.arg = call.ds
    /\ Len(ds.triface_nodes) < Len(call.ds.triface_nodes)
    /\ ds.lon = call.ds.lon

\* The elevation plot of what the interface u has selected
ElevationPlotOf(u) ==
    visuals_get_elevation_dmap(
        visuals_get_trimesh(
            utils_open_dataset(u.dataset_file.value, TRUE).value,
            u.longitude_var.value, u.latitude_var.value, u.elevation_var.value,
            u.simplices_var.value, u.time_var.value, u.timestamp.value),
        u.show_grid)

\* C15: after a click on Render that was handled without error, the main
\* column holds the elevation plot built from the selected dataset file,
\* variables, timestamp and wireframe option.
RenderPutsTheElevationPlotInMain ==
    (ui.constructed /\ ui.event = "render" /\ ui.error = "none") =>
        ui._main.objects = <<ElevationPlotOf(ui)>>

\* What _update_main does instead: after a click on Render that was handled
\* without error the main column has no object
RenderLeavesMainWithoutObjects ==
    (ui.constructed /\ ui.event = "render" /\ ui.error = "none") =>
        ui._main.objects = <<>>

\* The callbacks of the dataset-file selector, by the name of the method or, for
\* _set_variable, of the selector that it sets
NameOf(w) == IF w.fn = "_set_variable" THEN w.widget ELSE w.fn

OrderOfTheCallbacks ==
    << "_update_dataset_file", "longitude_var", "latitude_var", "elevation_var",
       "simplices_var", "time_var", "_update_timestamp" >>

\* All the callbacks of a change of the dataset file have returned
Completed ==
    /\ ui.constructed
    /\ queue = <<>>
    /\ ui.event \in {"__init__", "dataset_file"}
    /\ ui.error = "none"

\* The variables of the file with this path, as the file has them
VariablesOfFile(path) ==
    DataFiles[CHOOSE i \in 1..Len(DataFiles) : DataFiles[i].path = path].variables

\* The timestamps of variable name of the file with this path
TimestampsOfFile(path, name) ==
    LET variables == VariablesOfFile(path)
    IN  variables[CHOOSE i \in 1..Len(variables) : variables[i].name = name].values

\* C19: the callbacks of a change of the dataset file run in the order dataset,
\* longitude, latitude, elevation, simplices, time, timestamp: the variable
\* selectors are set from the variable list of the newly opened dataset, the
\* timestamp selector is filled when all five are set; and when all callbacks
\* have completed, every variable selector's value is one of its options and
\* the timestamp selector has the options 'MAXIMUM' followed by the timestamps
\* of the selected time variable in dataset order, and the value 'MAXIMUM'.
DatasetFileCallbacksRunInOrder ==
    /\ \E k \in 0..Len(OrderOfTheCallbacks) :
        [i \in 1..Len(queue) |-> NameOf(queue[i])]
            = SubSeq(OrderOfTheCallbacks, k + 1, Len(OrderOfTheCallbacks))
    /\ (queue # <<>> /\ Head(queue).fn # "_update_dataset_file") =>
        /\ ui._dataset.path = ui.dataset_file.value
        /\ Len(ui._variables) = Len(VariablesOfFile(ui.dataset_file.value))
        /\ \A i \in 1..Len(ui._variables) :
            ui._variables[i] = VariablesOfFile(ui.dataset_file.value)[i].name
    /\ (queue # <<>> /\ Head(queue).fn = "_update_timestamp") =>
        \A widget \in VariableSelectors :
            /\ ui[widget].options = ui._variables
            /\ isin(ui[widget].value, ui[widget].options)
    /\ Completed =>
        /\ \A widget \in VariableSelectors :
            /\ ui[widget].options = ui._variables
            /\ isin(ui[widget].value, ui[widget].options)
        /\ LET timestamps == TimestampsOfFile(ui.dataset_file.value, ui.time_var.value)
           IN  /\ Len(ui.timestamp.options) = 1 + Len(timestamps)
               /\ ui.timestamp.options[1] = "MAXIMUM"
               /\ \A i \in 1..Len(timestamps) :
                    ui.timestamp.options[i + 1] = strftime(timestamps[i])
        /\ ui.timestamp.value = "MAXIMUM"

\* C19 witness: the user had chosen a timestamp and then another dataset file;
\* all callbacks completed, the time selector was set by position, and the
\* timestamp selector lists the two timestamps of that variable.
DatasetFileChangeDiscardedTheChosenTimestamp ==
    /\ Completed
    /\ ui.event = "dataset_file"
    /\ ui.before \notin {None, "MAXIMUM"}
    /\ ui.time_var.value = "when"
    /\ ui.timestamp.options = <<"MAXIMUM", "2000-01-02 00-00-01", "2000-01-02 00-00-00">>
    /\ ui.timestamp.value = "MAXIMUM"

\* The (lon, lat) of the node at position p (0-based) of dataset d
PointAt(d, p) == <<d.lon[p + 1], d.lat[p + 1]>>

\* The closed ring of the triangle whose row of triface_nodes is row
RingOf(d, row) ==
    << PointAt(d, row[1]), PointAt(d, row[2]), PointAt(d, row[3]), PointAt(d, row[1]) >>

\* generate_mesh_polygon returned, with one ring per triangle of the dataset
\* it was given: the points of the nodes at the positions of the triangle's
\* row, the first repeated as the last
OneRingPerTriangle ==
    /\ call.result.raised = "none"
    /\ Len(call.result.value.polygons) = Len(call.ds.triface_nodes)
    /\ \A t \in 1..Len(call.ds.triface_nodes) :
        call.result.value.polygons[t] = RingOf(call.ds, call.ds.triface_nodes[t])

\* C21: for every dataset in the Thalassa schema, one returned by crop
\* included, generate_mesh_polygon builds for each triangle one closed ring of
\* four points, the lon/lat of the three nodes at the positions in the
\* triangle's row of triface_nodes and the first again, and raises nothing.
MeshPolygonHasTheRingOfEachTriangle ==
    (call.op = "generate_mesh_polygon") => OneRingPerTriangle

\* What holds instead: the rings are those of the triangles when the label of
\* every node is its position, as in a dataset that was not cropped
MeshPolygonHasTheRingOfEachTriangleIfLabelsArePositions ==
    (call.op = "generate_mesh_polygon" /\ call.ds.node = arange(Len(call.ds.node))) =>
        OneRingPerTriangle

====
